---------------------------- MODULE Spec2Model ----------------------------
(***************************************************************************)
(* Model of the BizonMatrix contract (src/contract/src/lib.rs): a NEAR     *)
(* smart contract keeping a ledger of players, 10-slot matrices filled by  *)
(* a "smart spill" rule, four fee pools, a daily distribution and claims.  *)
(*                                                                         *)
(* Every contract method is one atomic action: a NEAR function call runs   *)
(* to completion, and a panic (assert!, expect, unwrap) discards every     *)
(* write of the call.  A rejected call therefore changes only the          *)
(* observation variable `receipt`.                                         *)
(*                                                                         *)
(* Strings (account ids, BIZON ids, referral inputs) are sequences of      *)
(* one-character strings, so that format!, starts_with, ends_with and      *)
(* parse are computed and not assumed.                                     *)
(*                                                                         *)
(* Amounts are counted in units of 10^22 yoctoNEAR (the entry fee of       *)
(* 10^24 yocto is 100 units) and time in units of half a day, because the  *)
(* model checker's integers are 32 bits wide.  No u8/u32/u64/u128 field    *)
(* comes near its width inside the bounds, so no arithmetic wraps.         *)
(***************************************************************************)
EXTENDS Integers, Sequences, FiniteSets, TLC

(***************************************************************************)
(* Bounds of the model.                                                    *)
(***************************************************************************)
\* successful entries (join calls) in one behaviour of Spec
MaxEntries ==
    2

\* largest block timestamp
MaxTime ==
    5

\* successful entries in one behaviour of MatrixSpec: enough to fill a matrix
MaxMatrixEntries ==
    11

\* successful entries in one behaviour of CycleSpec: enough for a whole cycle
MaxCycleEntries ==
    101

\* accounts that enter in ScenarioSpec
MaxScenarioAccounts ==
    10

\* largest fee given to split_deposit in SplitSpec
MaxFee ==
    120

\* fees split in one behaviour of SplitSpec
MaxSplits ==
    2

\* accounts that enter in PoolSpec
MaxPoolPlayers ==
    4

\* successful entries in one behaviour of PoolSpec
MaxPoolEntries ==
    5

\* successful entries in one behaviour of RefSpec
MaxRefEntries ==
    3

(***************************************************************************)
(* Program constants.                                                      *)
(***************************************************************************)
\* let one_near: u128 = 1_000_000_000_000_000_000_000_000  (in units of 10^22)
one_near ==
    100

\* let day_ns: u64 = 86_400_000_000_000  (in units of half a day)
day_ns ==
    2

(***************************************************************************)
(* Strings.                                                                *)
(***************************************************************************)
DIGITS ==
    <<"0", "1", "2", "3", "4", "5", "6", "7", "8", "9">>

RECURSIVE Decimal(_)
\* the decimal digits of n, as format!("{}", n) prints them
Decimal(n) ==
    IF n < 10 THEN <<DIGITS[n + 1]>>
    ELSE Decimal(n \div 10) \o <<DIGITS[(n % 10) + 1]>>

\* raw.starts_with(prefix)
starts_with(raw, prefix) ==
    /\ Len(raw) >= Len(prefix)
    /\ SubSeq(raw, 1, Len(prefix)) = prefix

\* raw.ends_with(suffix)
ends_with(raw, suffix) ==
    /\ Len(raw) >= Len(suffix)
    /\ SubSeq(raw, Len(raw) - Len(suffix) + 1, Len(raw)) = suffix

ID_PREFIX ==
    <<"I", "D">>

DOT_TG ==
    <<".", "t", "g">>

DOT_NEAR ==
    <<".", "n", "e", "a", "r">>

DOT_TESTNET ==
    <<".", "t", "e", "s", "t", "n", "e", "t">>

(***************************************************************************)
(* Option<T>: None is the empty sequence, Some(x) the one-element one.     *)
(***************************************************************************)
None ==
    <<>>

Some(x) ==
    <<x>>

(***************************************************************************)
(* near_sdk::collections::UnorderedMap: a vector of keys with their        *)
(* values.  Nothing is ever removed, so iteration order is insertion       *)
(* order; inserting an existing key replaces its value in place.           *)
(***************************************************************************)
EmptyMap ==
    <<>>

MapKeys(m) ==
    {m[i].k : i \in 1..Len(m)}

contains_key(m, key) ==
    key \in MapKeys(m)

MapIndex(m, key) ==
    CHOOSE i \in 1..Len(m) : m[i].k = key

\* m.get(&key): Option<V>
get(m, key) ==
    IF contains_key(m, key) THEN Some(m[MapIndex(m, key)].v) ELSE None

\* m.insert(&key, &value)
insert(m, key, value) ==
    IF contains_key(m, key)
    THEN [m EXCEPT ![MapIndex(m, key)] = [k |-> key, v |-> value]]
    ELSE Append(m, [k |-> key, v |-> value])

(***************************************************************************)
(* The accounts that call the contract and the inputs they pass.           *)
(***************************************************************************)
ALICE ==
    <<"a">> \o DOT_NEAR

BOB ==
    <<"b">> \o DOT_TESTNET

OWNER ==
    <<"o">> \o DOT_NEAR

\* env::predecessor_account_id()
Callers ==
    {ALICE, BOB, OWNER}

\* the i-th account of the ten-entrant scenario: "p<i>.near"
scenario_account(i) ==
    <<"p">> \o Decimal(i) \o DOT_NEAR

\* the accounts whose payouts and credits are totalled
LedgerAccounts ==
    Callers \cup {scenario_account(i) : i \in 1..MaxPoolPlayers}

\* the empty account id written by disable_owner
DISABLED ==
    <<>>

\* ref_raw: Option<String>
RefInputs ==
    { None,
      Some(ID_PREFIX \o <<"1">>),
      Some(ID_PREFIX \o <<"2">>),
      Some(ALICE),
      Some(<<"x">> \o DOT_TG),
      Some(ID_PREFIX \o DOT_NEAR),
      Some(<<"j", "u", "n", "k">>) }

\* env::attached_deposit()
Deposits ==
    {one_near - 1, one_near}

\* rate: u8
Rates ==
    {100, 101}

(***************************************************************************)
(* The state of the contract (struct BizonMatrix), the environment and     *)
(* what the last call returned.                                            *)
(***************************************************************************)
VARIABLES
    players,            \* UnorderedMap<AccountId, Player>
    matrix_fill,        \* UnorderedMap<AccountId, u8>
    id_to_account,      \* UnorderedMap<BizonId, AccountId>
    account_to_id,      \* UnorderedMap<AccountId, BizonId>
    next_id,
    daily_pool,
    monthly_pool,
    yearly_pool,
    global_pool,
    total_players,
    last_daily_ts,
    last_monthly_ts,
    last_yearly_ts,
    owner_id,
    now,                \* env::block_timestamp()
    account_id_checked, \* does AccountId::from_str validate (near-sdk 4) or not (near-sdk 3)
    receipt,            \* the last call: method, caller, outcome, return value, placements made
    paid,               \* total of the transfers requested so far, per account
    credited,           \* total credited to pending_balance so far, per account
    completions,        \* number of on_matrix_full runs so far, per account
    entries             \* number of successful join calls so far

vars ==
    << players, matrix_fill, id_to_account, account_to_id, next_id, daily_pool,
       monthly_pool, yearly_pool, global_pool, total_players, last_daily_ts,
       last_monthly_ts, last_yearly_ts, owner_id, now, account_id_checked,
       receipt, paid, credited, completions, entries >>

\* the contract's fields as one value (self); `log` collects the placement
\* steps of the running call
Self ==
    [ players |-> players, matrix_fill |-> matrix_fill,
      id_to_account |-> id_to_account, account_to_id |-> account_to_id,
      next_id |-> next_id, daily_pool |-> daily_pool,
      monthly_pool |-> monthly_pool, yearly_pool |-> yearly_pool,
      global_pool |-> global_pool, total_players |-> total_players,
      last_daily_ts |-> last_daily_ts, last_monthly_ts |-> last_monthly_ts,
      last_yearly_ts |-> last_yearly_ts, owner_id |-> owner_id,
      log |-> <<>> ]

\* the call returns normally: its writes are kept
Commit(self) ==
    /\ players' = self.players
    /\ matrix_fill' = self.matrix_fill
    /\ id_to_account' = self.id_to_account
    /\ account_to_id' = self.account_to_id
    /\ next_id' = self.next_id
    /\ daily_pool' = self.daily_pool
    /\ monthly_pool' = self.monthly_pool
    /\ yearly_pool' = self.yearly_pool
    /\ global_pool' = self.global_pool
    /\ total_players' = self.total_players
    /\ last_daily_ts' = self.last_daily_ts
    /\ last_monthly_ts' = self.last_monthly_ts
    /\ last_yearly_ts' = self.last_yearly_ts
    /\ owner_id' = self.owner_id

\* the call panics: none of its writes is kept
Revert ==
    UNCHANGED << players, matrix_fill, id_to_account, account_to_id, next_id,
                 daily_pool, monthly_pool, yearly_pool, global_pool,
                 total_players, last_daily_ts, last_monthly_ts, last_yearly_ts,
                 owner_id >>

\* what a call was given and what came of it; `args` holds the arguments and
\* the attached deposit of a join call
Receipt(method, caller, status, ret, log) ==
    [ method |-> method, caller |-> caller, status |-> status, ret |-> ret,
      log |-> log, args |-> <<>> ]

\* join(ref_raw) with env::attached_deposit() = deposit
JoinArgs(ref_raw, deposit) ==
    [ref_raw |-> ref_raw, deposit |-> deposit]

\* set_reinvest_rate(rate)
RateArgs(rate) ==
    [rate |-> rate]

OK ==
    "ok"

\* the block timestamp of the deployment: as on the chain, more than a day
\* after the epoch, so that the first distribution is not held back
DEPLOY_TS ==
    day_ns + 1

\* pub fn new(owner_id: AccountId) -> Self
Init ==
    /\ players = EmptyMap
    /\ matrix_fill = EmptyMap
    /\ id_to_account = EmptyMap
    /\ account_to_id = EmptyMap
    /\ next_id = 1
    /\ daily_pool = 0
    /\ monthly_pool = 0
    /\ yearly_pool = 0
    /\ global_pool = 0
    /\ total_players = 0
    /\ last_daily_ts = 0
    /\ last_monthly_ts = 0
    /\ last_yearly_ts = 0
    /\ owner_id = OWNER
    /\ now = DEPLOY_TS
    /\ account_id_checked \in BOOLEAN
    /\ receipt = Receipt("new", OWNER, OK, None, <<>>)
    /\ paid = [a \in LedgerAccounts |-> 0]
    /\ credited = [a \in LedgerAccounts |-> 0]
    /\ completions = [a \in Callers |-> 0]
    /\ entries = 0

(***************************************************************************)
(* The private methods, as functions from self to self.                    *)
(***************************************************************************)
\* split_deposit without the remainder credited to global_pool
split_deposit_no_remainder(self, amount) ==
    [self EXCEPT !.daily_pool = @ + (amount * 90) \div 100,
                 !.monthly_pool = @ + (amount * 9) \div 100,
                 !.yearly_pool = @ + (amount * 1) \div 100]

\* fn split_deposit(&mut self, one_near: u128)
split_deposit(self, amount) ==
    LET daily == (amount * 90) \div 100
        monthly == (amount * 9) \div 100
        yearly == (amount * 1) \div 100
        used == daily + monthly + yearly
    IN  [self EXCEPT !.daily_pool = @ + daily,
                     !.monthly_pool = @ + monthly,
                     !.yearly_pool = @ + yearly,
                     !.global_pool = IF amount > used THEN @ + (amount - used) ELSE @]

\* format!("ID{}", self.next_id)
format_id(n) ==
    ID_PREFIX \o Decimal(n)

\* ensure_bizon_id without the early return for a known account
ensure_bizon_id_always_new(self, account) ==
    LET id_str == format_id(self.next_id)
    IN  [self |-> [self EXCEPT !.next_id = @ + 1,
                               !.id_to_account = insert(@, id_str, account),
                               !.account_to_id = insert(@, account, id_str)],
         id |-> id_str]

\* fn ensure_bizon_id(&mut self, account: &AccountId) -> BizonId
\* (the pair of the new self and the returned id)
ensure_bizon_id(self, account) ==
    IF get(self.account_to_id, account) # None
    THEN [self |-> self, id |-> get(self.account_to_id, account)[1]]
    ELSE LET id_str == format_id(self.next_id)
         IN  [self |-> [self EXCEPT !.next_id = @ + 1,
                                    !.id_to_account = insert(@, id_str, account),
                                    !.account_to_id = insert(@, account, id_str)],
              id |-> id_str]

LOWER ==
    { "a", "b", "c", "d", "e", "f", "g", "h", "i", "j", "k", "l", "m",
      "n", "o", "p", "q", "r", "s", "t", "u", "v", "w", "x", "y", "z" }

SEPARATORS ==
    {".", "-", "_"}

\* AccountId::from_str of near-sdk 4: 2 to 64 characters, lower-case letters
\* and digits separated by single '.', '-' or '_'
is_valid_account_id(raw) ==
    /\ Len(raw) >= 2
    /\ Len(raw) <= 64
    /\ \A i \in 1..Len(raw) :
          raw[i] \in LOWER \cup {DIGITS[d] : d \in 1..10} \cup SEPARATORS
    /\ raw[1] \notin SEPARATORS
    /\ raw[Len(raw)] \notin SEPARATORS
    /\ \A i \in 1..(Len(raw) - 1) :
          ~(raw[i] \in SEPARATORS /\ raw[i + 1] \in SEPARATORS)

\* raw.parse().ok(): near-sdk 3 has AccountId = String, whose parse cannot
\* fail; near-sdk 4 validates
parse_account_id(raw) ==
    IF account_id_checked /\ ~is_valid_account_id(raw) THEN None ELSE Some(raw)

\* fn resolve_ref(&self, raw: &String) -> Option<AccountId>
resolve_ref(self, raw) ==
    IF starts_with(raw, ID_PREFIX) /\ get(self.id_to_account, raw) # None
    THEN get(self.id_to_account, raw)
    ELSE IF ends_with(raw, DOT_TG)
    THEN None
    ELSE IF ends_with(raw, DOT_NEAR) \/ ends_with(raw, DOT_TESTNET)
    THEN parse_account_id(raw)
    ELSE None

\* u8::MAX
U8_MAX ==
    255

RECURSIVE emptiest_from(_, _, _, _)
\* the loop of find_emptiest_matrix from the i-th record on
emptiest_from(m, i, min_fill, candidate) ==
    IF i > Len(m) THEN candidate
    ELSE IF m[i].v < min_fill
    THEN emptiest_from(m, i + 1, m[i].v, Some(m[i].k))
    ELSE emptiest_from(m, i + 1, min_fill, candidate)

RECURSIVE emptiest_from_last(_, _, _, _)
\* the loop of find_emptiest_matrix with `*fill <= min_fill`
emptiest_from_last(m, i, min_fill, candidate) ==
    IF i > Len(m) THEN candidate
    ELSE IF m[i].v <= min_fill
    THEN emptiest_from_last(m, i + 1, m[i].v, Some(m[i].k))
    ELSE emptiest_from_last(m, i + 1, min_fill, candidate)

\* find_emptiest_matrix keeping the last of the least-filled records
find_emptiest_matrix_last_tie(self) ==
    LET candidate == emptiest_from_last(self.matrix_fill, 1, U8_MAX, None)
    IN  IF candidate = None THEN self.owner_id ELSE candidate[1]

\* find_emptiest_matrix with min_fill starting at 0 instead of u8::MAX
find_emptiest_matrix_min_zero(self) ==
    LET candidate == emptiest_from(self.matrix_fill, 1, 0, None)
    IN  IF candidate = None THEN self.owner_id ELSE candidate[1]

\* find_emptiest_matrix keeping the first record whatever its fill
find_first_matrix(self) ==
    IF Len(self.matrix_fill) = 0 THEN self.owner_id ELSE self.matrix_fill[1].k

\* fn find_emptiest_matrix(&self) -> AccountId
find_emptiest_matrix(self) ==
    LET candidate == emptiest_from(self.matrix_fill, 1, U8_MAX, None)
    IN  IF candidate = None THEN self.owner_id ELSE candidate[1]

\* a full matrix
MATRIX_SLOTS ==
    10

\* level at which a cycle is counted
LEVELS_PER_CYCLE ==
    10

SpillStep(owner, fill) ==
    [step |-> "spill", owner |-> owner, fill |-> fill]

FullStep(owner, level, cycles) ==
    [step |-> "full", owner |-> owner, level |-> level, cycles |-> cycles]

\* level_up with `p.level > 10` for `p.level >= 10`
level_up_one_late(p) ==
    IF p.level + 1 > LEVELS_PER_CYCLE
    THEN [p EXCEPT !.cycles = @ + 1, !.level = 0]
    ELSE [p EXCEPT !.level = @ + 1]

\* level_up crediting the owner of the completed matrix
level_up_with_reward(p) ==
    IF p.level + 1 >= LEVELS_PER_CYCLE
    THEN [p EXCEPT !.cycles = @ + 1, !.level = 0, !.pending_balance = @ + 1]
    ELSE [p EXCEPT !.level = @ + 1, !.pending_balance = @ + 1]

\* p.level += 1; if p.level >= 10 { p.cycles += 1; p.level = 0; }
level_up(p) ==
    IF p.level + 1 >= LEVELS_PER_CYCLE
    THEN [p EXCEPT !.cycles = @ + 1, !.level = 0]
    ELSE [p EXCEPT !.level = @ + 1]

\* if fill < 10 { fill += 1; ... }
spill_fill(fill) ==
    IF fill < MATRIX_SLOTS THEN fill + 1 ELSE fill

RECURSIVE apply_spill(_, _)
RECURSIVE on_matrix_full(_, _)

\* on_matrix_full without `self.matrix_fill.insert(&owner, &0)`
on_matrix_full_no_reset(self, owner) ==
    IF get(self.players, owner) = None THEN self
    ELSE LET p == level_up(get(self.players, owner)[1])
             kept == [self EXCEPT !.players = insert(@, owner, p),
                                  !.log = Append(@, FullStep(owner, p.level, p.cycles))]
             emptiest == find_emptiest_matrix(kept)
         IN  IF emptiest # owner THEN apply_spill(kept, emptiest) ELSE kept

\* fn apply_spill(&mut self, owner: &AccountId)
apply_spill(self, owner) ==
    LET old == IF get(self.matrix_fill, owner) = None THEN 0
               ELSE get(self.matrix_fill, owner)[1]
        fill == spill_fill(old)
        written == IF old < MATRIX_SLOTS
                   THEN [self EXCEPT !.matrix_fill = insert(@, owner, fill),
                                     !.log = Append(@, SpillStep(owner, fill))]
                   ELSE self
    IN  IF fill >= MATRIX_SLOTS THEN on_matrix_full(written, owner) ELSE written

\* on_matrix_full without `if emptiest != owner`
on_matrix_full_self_placement(self, owner) ==
    IF get(self.players, owner) = None THEN self
    ELSE LET p == level_up(get(self.players, owner)[1])
             reset == [self EXCEPT !.players = insert(@, owner, p),
                                   !.matrix_fill = insert(@, owner, 0),
                                   !.log = Append(@, FullStep(owner, p.level, p.cycles))]
         IN  apply_spill(reset, find_emptiest_matrix(reset))

\* fn on_matrix_full(&mut self, owner: AccountId)
on_matrix_full(self, owner) ==
    IF get(self.players, owner) = None THEN self
    ELSE LET p == level_up(get(self.players, owner)[1])
             reset == [self EXCEPT !.players = insert(@, owner, p),
                                   !.matrix_fill = insert(@, owner, 0),
                                   !.log = Append(@, FullStep(owner, p.level, p.cycles))]
             emptiest == find_emptiest_matrix(reset)
         IN  IF emptiest # owner THEN apply_spill(reset, emptiest) ELSE reset

(***************************************************************************)
(* The panic messages of the contract.                                     *)
(***************************************************************************)
InvalidPayment ==
    "Need exactly 1 NEAR to join"

InvalidRate ==
    "Rate must be 0-100"

NotAPlayer ==
    "Not a player"

AlreadyDistributed ==
    "Daily already distributed"

NoParticipants ==
    "No players"

NothingToClaim ==
    "Nothing to claim"

NotAuthorized ==
    "Not owner"

UnwrapFailed ==
    "called Result::unwrap() on an Err value"

\* a call given `args` that panics: the state is left as it was
RejectWith(method, caller, message, args) ==
    /\ Revert
    /\ receipt' = [Receipt(method, caller, message, None, <<>>) EXCEPT !.args = args]
    /\ UNCHANGED <<now, account_id_checked, paid, credited, completions, entries>>

\* a call that panics: the state is left as it was
Reject(method, caller, message) ==
    RejectWith(method, caller, message, <<>>)

\* the number of on_matrix_full runs for account a in the steps of a call
FullCount(log, a) ==
    Cardinality({i \in 1..Len(log) : log[i].step = "full" /\ log[i].owner = a})

(***************************************************************************)
(* The public methods.                                                     *)
(***************************************************************************)
\* Player { bizon_id, referrer, join_ts, level: 0, cycles: 0, pending_balance: 0, reinvest_rate: 0 }
new_player(bizon_id, ref_acc, ts) ==
    [ bizon_id |-> bizon_id, referrer |-> ref_acc, join_ts |-> ts, level |-> 0,
      cycles |-> 0, pending_balance |-> 0, reinvest_rate |-> 0 ]

\* the referrer without `.filter(|acc| acc != &caller)`
referrer_of_unfiltered(self, ref_raw, caller) ==
    IF ref_raw = None THEN None ELSE resolve_ref(self, ref_raw[1])

\* ref_raw.as_ref().and_then(|r| self.resolve_ref(r)).filter(|acc| acc != &caller)
referrer_of(self, ref_raw, caller) ==
    LET resolved == IF ref_raw = None THEN None ELSE resolve_ref(self, ref_raw[1])
    IN  IF resolved # None /\ resolved[1] # caller THEN resolved ELSE None

\* join counting a player at every entry, not only at the first
join_body_counts_every_entry(self, caller, ref_raw) ==
    LET ensured == ensure_bizon_id(self, caller)
        split == split_deposit(ensured.self, one_near)
        created ==
            IF ~contains_key(split.players, caller)
            THEN [split EXCEPT
                    !.players = insert(@, caller,
                        new_player(ensured.id, referrer_of(split, ref_raw, caller), now)),
                    !.matrix_fill = insert(@, caller, 0),
                    !.total_players = @ + 1]
            ELSE [split EXCEPT !.total_players = @ + 1]
    IN  apply_spill(created, find_emptiest_matrix(created))

\* the body of join after the deposit check
join_body(self, caller, ref_raw) ==
    LET ensured == ensure_bizon_id(self, caller)
        split == split_deposit(ensured.self, one_near)
        created ==
            IF ~contains_key(split.players, caller)
            THEN [split EXCEPT
                    !.players = insert(@, caller,
                        new_player(ensured.id, referrer_of(split, ref_raw, caller), now)),
                    !.matrix_fill = insert(@, caller, 0),
                    !.total_players = @ + 1]
            ELSE split
    IN  apply_spill(created, find_emptiest_matrix(created))

\* join without the assertion on the attached deposit
join_any_deposit(caller, ref_raw, deposit) ==
    /\ LET self == join_body(Self, caller, ref_raw)
       IN  /\ Commit(self)
           /\ receipt' = [Receipt("join", caller, OK, None, self.log)
                             EXCEPT !.args = JoinArgs(ref_raw, deposit)]
           /\ completions' =
                  [a \in DOMAIN completions |-> completions[a] + FullCount(self.log, a)]
    /\ entries' = entries + 1
    /\ UNCHANGED <<now, account_id_checked, paid, credited>>

\* pub fn join(&mut self, ref_raw: Option<String>)
join(caller, ref_raw, deposit) ==
    IF deposit # one_near
    THEN RejectWith("join", caller, InvalidPayment, JoinArgs(ref_raw, deposit))
    ELSE /\ LET self == join_body(Self, caller, ref_raw)
            IN  /\ Commit(self)
                /\ receipt' = [Receipt("join", caller, OK, None, self.log)
                                  EXCEPT !.args = JoinArgs(ref_raw, deposit)]
                /\ completions' =
                       [a \in DOMAIN completions |-> completions[a] + FullCount(self.log, a)]
         /\ entries' = entries + 1
         /\ UNCHANGED <<now, account_id_checked, paid, credited>>

\* set_reinvest_rate that does nothing for an account without a record
set_reinvest_rate_tolerant(caller, rate) ==
    IF ~(rate <= 100)
    THEN RejectWith("set_reinvest_rate", caller, InvalidRate, RateArgs(rate))
    ELSE LET p == [get(players, caller)[1] EXCEPT !.reinvest_rate = rate]
             self == IF get(players, caller) = None THEN Self
                     ELSE [Self EXCEPT !.players = insert(@, caller, p)]
         IN  /\ Commit(self)
             /\ receipt' = [Receipt("set_reinvest_rate", caller, OK, None, <<>>)
                               EXCEPT !.args = RateArgs(rate)]
             /\ UNCHANGED <<now, account_id_checked, paid, credited, completions, entries>>

\* pub fn set_reinvest_rate(&mut self, rate: u8)
set_reinvest_rate(caller, rate) ==
    IF ~(rate <= 100)
    THEN RejectWith("set_reinvest_rate", caller, InvalidRate, RateArgs(rate))
    ELSE IF get(players, caller) = None
    THEN RejectWith("set_reinvest_rate", caller, NotAPlayer, RateArgs(rate))
    ELSE LET p == [get(players, caller)[1] EXCEPT !.reinvest_rate = rate]
         IN  /\ Commit([Self EXCEPT !.players = insert(@, caller, p)])
             /\ receipt' = [Receipt("set_reinvest_rate", caller, OK, None, <<>>)
                               EXCEPT !.args = RateArgs(rate)]
             /\ UNCHANGED <<now, account_id_checked, paid, credited, completions, entries>>

\* the window check left out
window_always_open(ts, last) ==
    TRUE

\* now - self.last_daily_ts > day_ns
\* (block timestamps never decrease, so the u64 subtraction cannot underflow)
window_open(ts, last) ==
    ts - last > day_ns

\* p.pending_balance += share, for every player
pay_share(m, share) ==
    [i \in 1..Len(m) |-> [m[i] EXCEPT !.v.pending_balance = @ + share]]

\* distribute_daily with the share rounded up instead of down
distribute_body_rounding_up(self, ts) ==
    IF self.daily_pool = 0
    THEN [self EXCEPT !.last_daily_ts = ts]
    ELSE LET share == (self.daily_pool + self.total_players - 1) \div self.total_players
         IN  IF share = 0
             THEN [self EXCEPT !.global_pool = @ + self.daily_pool,
                               !.daily_pool = 0,
                               !.last_daily_ts = ts]
             ELSE [self EXCEPT !.players = pay_share(@, share),
                               !.daily_pool = 0,
                               !.last_daily_ts = ts]

\* distribute_daily without `self.daily_pool = 0` after the shares are paid
distribute_body_keeps_pool(self, ts) ==
    IF self.daily_pool = 0
    THEN [self EXCEPT !.last_daily_ts = ts]
    ELSE LET share == self.daily_pool \div self.total_players
         IN  IF share = 0
             THEN [self EXCEPT !.global_pool = @ + self.daily_pool,
                               !.daily_pool = 0,
                               !.last_daily_ts = ts]
             ELSE [self EXCEPT !.players = pay_share(@, share),
                               !.last_daily_ts = ts]

\* the body of distribute_daily after its two assertions
distribute_body(self, ts) ==
    IF self.daily_pool = 0
    THEN [self EXCEPT !.last_daily_ts = ts]
    ELSE LET share == self.daily_pool \div self.total_players
         IN  IF share = 0
             THEN [self EXCEPT !.global_pool = @ + self.daily_pool,
                               !.daily_pool = 0,
                               !.last_daily_ts = ts]
             ELSE [self EXCEPT !.players = pay_share(@, share),
                               !.daily_pool = 0,
                               !.last_daily_ts = ts]

\* the amount distribute_daily adds to every pending_balance
share_paid(self) ==
    IF self.daily_pool = 0 THEN 0 ELSE self.daily_pool \div self.total_players

\* pub fn distribute_daily(&mut self)
distribute_daily ==
    IF ~window_open(now, last_daily_ts)
    THEN Reject("distribute_daily", None, AlreadyDistributed)
    ELSE IF ~(total_players > 0)
    THEN Reject("distribute_daily", None, NoParticipants)
    ELSE /\ Commit(distribute_body(Self, now))
         /\ receipt' = Receipt("distribute_daily", None, OK, None, <<>>)
         /\ credited' = [a \in DOMAIN credited |->
                           IF contains_key(players, a)
                           THEN credited[a] + share_paid(Self) ELSE credited[a]]
         /\ UNCHANGED <<now, account_id_checked, paid, completions, entries>>

\* claim_all that lets an account without a record claim nothing
claim_all_tolerant(caller) ==
    IF get(players, caller) = None
    THEN /\ Revert
         /\ receipt' = Receipt("claim_all", caller, OK, Some(0), <<>>)
         /\ UNCHANGED <<now, account_id_checked, paid, credited, completions, entries>>
    ELSE LET p == get(players, caller)[1]
             amount == p.pending_balance
         IN  IF ~(amount > 0)
             THEN Reject("claim_all", caller, NothingToClaim)
             ELSE /\ Commit([Self EXCEPT
                            !.players = insert(@, caller, [p EXCEPT !.pending_balance = 0])])
                  /\ paid' = [paid EXCEPT ![caller] = @ + amount]
                  /\ receipt' = Receipt("claim_all", caller, OK, Some(amount), <<>>)
                  /\ UNCHANGED <<now, account_id_checked, credited, completions, entries>>

\* claim_all without `p.pending_balance = 0`
claim_all_keeps_balance(caller) ==
    IF get(players, caller) = None
    THEN Reject("claim_all", caller, NotAPlayer)
    ELSE LET amount == get(players, caller)[1].pending_balance
         IN  IF ~(amount > 0)
             THEN Reject("claim_all", caller, NothingToClaim)
             ELSE /\ Revert
                  /\ paid' = [paid EXCEPT ![caller] = @ + amount]
                  /\ receipt' = Receipt("claim_all", caller, OK, Some(amount), <<>>)
                  /\ UNCHANGED <<now, account_id_checked, credited, completions, entries>>

\* pub fn claim_all(&mut self) -> U128
claim_all(caller) ==
    IF get(players, caller) = None
    THEN Reject("claim_all", caller, NotAPlayer)
    ELSE LET p == get(players, caller)[1]
             amount == p.pending_balance
         IN  IF ~(amount > 0)
             THEN Reject("claim_all", caller, NothingToClaim)
             ELSE /\ Commit([Self EXCEPT
                            !.players = insert(@, caller, [p EXCEPT !.pending_balance = 0])])
                  \* Promise::new(caller.clone()).transfer(amount)
                  /\ paid' = [paid EXCEPT ![caller] = @ + amount]
                  /\ receipt' = Receipt("claim_all", caller, OK, Some(amount), <<>>)
                  /\ UNCHANGED <<now, account_id_checked, credited, completions, entries>>

\* pub fn get_my_profile(&self) -> Option<(BizonId, u8, u32, u8, U128)>
\* (a view: a function of the state and the caller)
get_my_profile(caller) ==
    IF get(players, caller) = None THEN None
    ELSE LET p == get(players, caller)[1]
             fill == IF get(matrix_fill, caller) = None THEN 0
                     ELSE get(matrix_fill, caller)[1]
         IN  Some(<<p.bizon_id, p.level, p.cycles, fill, p.pending_balance>>)

\* pub fn get_my_id(&self) -> Option<BizonId>
\* (a view: a function of the state and the caller)
get_my_id(caller) ==
    get(account_to_id, caller)

\* pub fn disable_owner(&mut self)
disable_owner(caller) ==
    IF caller # owner_id
    THEN Reject("disable_owner", caller, NotAuthorized)
    ELSE IF parse_account_id(DISABLED) = None
    THEN Reject("disable_owner", caller, UnwrapFailed)
    ELSE /\ Commit([Self EXCEPT !.owner_id = parse_account_id(DISABLED)[1]])
         /\ receipt' = Receipt("disable_owner", caller, OK, None, <<>>)
         /\ UNCHANGED <<now, account_id_checked, paid, credited, completions, entries>>

\* the block timestamp grows between calls
advance_time ==
    /\ now < MaxTime
    /\ now' = now + 1
    /\ UNCHANGED << players, matrix_fill, id_to_account, account_to_id, next_id,
                    daily_pool, monthly_pool, yearly_pool, global_pool,
                    total_players, last_daily_ts, last_monthly_ts, last_yearly_ts,
                    owner_id, account_id_checked, receipt, paid, credited,
                    completions, entries >>

(***************************************************************************)
(* The calls the environment makes: callers C may join, callers D call the *)
(* other methods, with referral inputs R, deposits P and rates T; at most   *)
(* `limit` entries succeed.                                                *)
(***************************************************************************)
Join(C, R, P, limit) ==
    \E caller \in C, ref_raw \in R, deposit \in P :
        /\ deposit = one_near => entries < limit
        /\ join(caller, ref_raw, deposit)

SetReinvestRate(D, T) ==
    \E caller \in D, rate \in T : set_reinvest_rate(caller, rate)

DistributeDaily ==
    distribute_daily

ClaimAll(D) ==
    \E caller \in D : claim_all(caller)

DisableOwner(D) ==
    \E caller \in D : disable_owner(caller)

AdvanceTime ==
    advance_time

\* referral inputs of Spec: none, or the first public id
MainRefs ==
    {None, Some(format_id(1))}

Next ==
    \/ Join({ALICE, BOB}, MainRefs, Deposits, MaxEntries)
    \/ SetReinvestRate({ALICE}, Rates)
    \/ DistributeDaily
    \/ ClaimAll({ALICE, BOB})
    \/ DisableOwner({ALICE, OWNER})
    \/ AdvanceTime

Spec ==
    Init /\ [][Next]_vars

(***************************************************************************)
(* MatrixSpec: the same contract with enough entries to fill matrices.     *)
(* All five methods are called; the inputs that no placement reads         *)
(* (referral, rate, time) are held to one value.                           *)
(***************************************************************************)
MatrixNext ==
    \/ Join({ALICE, BOB}, {None}, Deposits, MaxMatrixEntries)
    \/ SetReinvestRate({BOB}, {100})
    \/ DistributeDaily
    \/ ClaimAll({ALICE})
    \/ DisableOwner({OWNER})

MatrixSpec ==
    Init /\ [][MatrixNext]_vars

(***************************************************************************)
(* CycleSpec: entries only, enough of them for ten completions.            *)
(***************************************************************************)
CycleNext ==
    Join({ALICE, BOB}, {None}, {one_near}, MaxCycleEntries)

CycleSpec ==
    Init /\ [][CycleNext]_vars

(***************************************************************************)
(* ScenarioSpec: from the empty ledger, new accounts enter one after the   *)
(* other, each once, the first one without a referral.  The accounts are   *)
(* interchangeable, so they enter in the order of their numbers.           *)
(***************************************************************************)
ScenarioNext ==
    \E i \in 1..MaxScenarioAccounts, ref_raw \in MainRefs :
        /\ i = total_players + 1
        /\ i = 1 => ref_raw = None
        /\ join(scenario_account(i), ref_raw, one_near)

ScenarioSpec ==
    Init /\ [][ScenarioNext]_vars

(***************************************************************************)
(* SplitSpec: split_deposit applied to any fee, next to the entries that   *)
(* apply it to the fixed fee.                                              *)
(***************************************************************************)
SplitDeposit ==
    \E fee \in 0..MaxFee :
        /\ entries < MaxSplits
        /\ Commit(split_deposit(Self, fee))
        /\ receipt' = Receipt("split_deposit", None, OK, Some(fee), <<>>)
        /\ entries' = entries + 1
        /\ UNCHANGED <<now, account_id_checked, paid, credited, completions>>

SplitNext ==
    \/ SplitDeposit
    \/ Join({ALICE}, {None}, Deposits, MaxSplits)

SplitSpec ==
    Init /\ [][SplitNext]_vars

(***************************************************************************)
(* PoolSpec: up to four players (entering in the order of their numbers,   *)
(* each as often as it likes), so that the daily pool does not always      *)
(* divide evenly, with distributions, claims and the passing of time.      *)
(***************************************************************************)
PoolJoin ==
    \E i \in 1..MaxPoolPlayers :
        /\ i <= total_players + 1
        /\ entries < MaxPoolEntries
        /\ join(scenario_account(i), None, one_near)

PoolNext ==
    \/ PoolJoin
    \/ DistributeDaily
    \/ ClaimAll({scenario_account(1)})
    \/ AdvanceTime

PoolSpec ==
    Init /\ [][PoolNext]_vars

(***************************************************************************)
(* RefSpec: entries with every form of referral input and with deposits    *)
(* below, at and above the fee.                                            *)
(***************************************************************************)
\* env::attached_deposit(): nothing, just below the fee, the fee, just above
RefDeposits ==
    {0, one_near - 1, one_near, one_near + 1}

RefNext ==
    Join({ALICE, BOB}, RefInputs, RefDeposits, MaxRefEntries)

RefSpec ==
    Init /\ [][RefNext]_vars

(***************************************************************************)
(* Properties.                                                             *)
(***************************************************************************)
\* the step is a call of `method` (time passes only between calls)
Step(method) ==
    /\ now' = now
    /\ receipt'.method = method

\* the step is a call of `method` that returned normally
Returned(method) ==
    Step(method) /\ receipt'.status = OK

\* the whole contract state is left as it was
Untouched ==
    UNCHANGED << players, matrix_fill, id_to_account, account_to_id, next_id,
                 daily_pool, monthly_pool, yearly_pool, global_pool,
                 total_players, last_daily_ts, last_monthly_ts, last_yearly_ts,
                 owner_id, paid >>

PoolTotal ==
    daily_pool + monthly_pool + yearly_pool + global_pool

\* C1 (fill bound): between operations every matrix-fill counter is in 0..9;
\* when a placement of the last call raised a counter to 10, the matrix was
\* completed right after it and the counter is back below 10.
C1_FillBound ==
    /\ \A i \in 1..Len(matrix_fill) : matrix_fill[i].v \in 0..9
    /\ \A j \in 1..Len(receipt.log) :
          (receipt.log[j].step = "spill" /\ receipt.log[j].fill = 10)
              => /\ j < Len(receipt.log)
                 /\ receipt.log[j + 1].step = "full"
                 /\ receipt.log[j + 1].owner = receipt.log[j].owner

\* a call (here after a distribution and a claim) raised a counter to 10 and
\* the counter is 0 again
C1_Witness ==
    /\ \E j \in 1..Len(receipt.log) :
          /\ receipt.log[j].step = "spill"
          /\ receipt.log[j].fill = 10
          /\ get(matrix_fill, receipt.log[j].owner) = Some(0)
    /\ paid[ALICE] > 0

\* C2 (fee conservation): splitting a fee F adds floor(90F/100) to the daily
\* pool, floor(9F/100) to the monthly pool, floor(F/100) to the yearly pool
\* and the rest of F to the global pool; every entry that succeeds adds
\* exactly the fixed fee to the sum of the four pools.
C2_FeeConservation ==
    [][ /\ Returned("split_deposit") =>
            LET F == receipt'.ret[1]
                d == (90 * F) \div 100
                m == (9 * F) \div 100
                y == F \div 100
            IN  /\ daily_pool' = daily_pool + d
                /\ monthly_pool' = monthly_pool + m
                /\ yearly_pool' = yearly_pool + y
                /\ global_pool' = global_pool + (F - d - m - y)
                /\ PoolTotal' = PoolTotal + F
        /\ Returned("join") => PoolTotal' = PoolTotal + one_near
        /\ (Step("join") /\ receipt'.status # OK) => PoolTotal' = PoolTotal
      ]_vars

\* a fee that the three percentages do not divide was split (the remainder went
\* to the global pool) and an entry was made
C2_Witness ==
    /\ receipt.method = "split_deposit"
    /\ receipt.ret[1] % 100 # 0
    /\ global_pool > 0
    /\ total_players = 1

\* the pending balance of a player
Pending(a) ==
    get(players, a)[1].pending_balance

\* every field of the contract but `players` is left as it was
OnlyPlayersChange ==
    UNCHANGED << matrix_fill, id_to_account, account_to_id, next_id, daily_pool,
                 monthly_pool, yearly_pool, global_pool, total_players,
                 last_daily_ts, last_monthly_ts, last_yearly_ts, owner_id >>

\* C3 (claim drains exactly once): a claim that succeeds is made by a player
\* with a pending balance b > 0, returns b, requests one transfer of b to the
\* caller, sets that player's pending balance to 0 and changes nothing else;
\* a claim by a player whose pending balance is 0 (as it is after a claim,
\* until the next distribution) fails with "Nothing to claim" and changes
\* nothing; no account is ever paid more than was credited to it.
C3_ClaimDrainsOnce ==
    /\ [](\A a \in LedgerAccounts : paid[a] <= credited[a])
    /\ [][ Returned("claim_all") =>
             LET c == receipt'.caller
             IN  /\ contains_key(players, c)
                 /\ Pending(c) > 0
                 /\ receipt'.ret = Some(Pending(c))
                 /\ paid' = [paid EXCEPT ![c] = @ + Pending(c)]
                 /\ players' = insert(players, c,
                        [get(players, c)[1] EXCEPT !.pending_balance = 0])
                 /\ OnlyPlayersChange
         ]_vars
    /\ [][ ( /\ Step("claim_all")
             /\ contains_key(players, receipt'.caller)
             /\ Pending(receipt'.caller) = 0 )
           => /\ receipt'.status = NothingToClaim
              /\ receipt'.ret = None
              /\ Untouched
         ]_vars

\* a second claim, right after one that paid, was refused
C3_Witness ==
    /\ receipt.method = "claim_all"
    /\ receipt.status = NothingToClaim
    /\ paid[receipt.caller] > 0
    /\ Pending(receipt.caller) = 0

\* C4 (distribution idempotence by window): once a distribution has
\* succeeded at time t = last_daily_ts, a distribute_daily call at a time
\* earlier than t + 1 day changes no pool, no pending balance and no
\* timestamp.
C4_WindowIdempotence ==
    [][ ( /\ Step("distribute_daily")
          /\ last_daily_ts # 0
          /\ now < last_daily_ts + day_ns )
        => /\ Untouched
           /\ credited' = credited
      ]_vars

\* a call made later than a successful distribution, inside its window
C4_Witness ==
    /\ receipt.method = "distribute_daily"
    /\ last_daily_ts # 0
    /\ now > last_daily_ts
    /\ now < last_daily_ts + day_ns
    /\ total_players > 0

\* C5 (distribution window boundary): with at least one participant, a
\* distribute_daily call is skipped only when now is earlier than
\* last_daily_ts + 1 day; from now = last_daily_ts + 1 day on it is accepted
\* and leaves daily_pool = 0 and last_daily_ts = now.
C5_WindowBoundary ==
    [][ (Step("distribute_daily") /\ total_players > 0) =>
            IF now >= last_daily_ts + day_ns
            THEN /\ receipt'.status = OK
                 /\ daily_pool' = 0
                 /\ last_daily_ts' = now
            ELSE Untouched
      ]_vars

RECURSIVE PendingFrom(_, _)
\* the sum of the pending balances from the i-th player on
PendingFrom(m, i) ==
    IF i > Len(m) THEN 0 ELSE m[i].v.pending_balance + PendingFrom(m, i + 1)

RECURSIVE SumOver(_, _)
\* the sum of f over the set S
SumOver(f, S) ==
    IF S = {} THEN 0
    ELSE LET a == CHOOSE x \in S : TRUE IN f[a] + SumOver(f, S \ {a})

\* pools, pending balances and payouts together
LedgerTotal ==
    PoolTotal + PendingFrom(players, 1) + SumOver(paid, DOMAIN paid)

\* C6 (distribution amounts): an accepted distribute_daily with daily_pool =
\* P > 0 and N players has N > 0 and share = floor(P / N); if share = 0 the
\* global pool grows by P and no pending balance changes, otherwise every
\* player's pending balance grows by share and the global pool is unchanged;
\* the monthly and yearly pools are unchanged.
C6_DistributionAmounts ==
    [][ (Returned("distribute_daily") /\ daily_pool > 0) =>
            LET P == daily_pool
                N == total_players
                share == CHOOSE s \in 0..P : s * N <= P /\ P < (s + 1) * N
            IN  /\ N > 0
                /\ Len(players) = N
                /\ monthly_pool' = monthly_pool
                /\ yearly_pool' = yearly_pool
                /\ IF share = 0
                   THEN /\ global_pool' = global_pool + P
                        /\ players' = players
                   ELSE /\ global_pool' = global_pool
                        /\ Len(players') = N
                        /\ \A i \in 1..N :
                              players'[i] =
                                  [players[i] EXCEPT !.v.pending_balance = @ + share]
      ]_vars

\* a distribution whose pool the number of players did not divide: every
\* player was credited and the ledger holds less than was paid in
C6_Witness ==
    /\ receipt.method = "distribute_daily"
    /\ receipt.status = OK
    /\ total_players = MaxPoolPlayers
    /\ \A i \in 1..Len(players) : players[i].v.pending_balance > 0
    /\ LedgerTotal < entries * one_near

\* C7 (id uniqueness and stability): the id of an account, once assigned,
\* is the same at every later lookup and after a repeat entry; two accounts
\* never have the same id; the ids are "ID1", "ID2", ... in the order of
\* assignment, next_id never decreases, and no id passes to another account.
C7_IdUniqueStable ==
    /\ [](\A i, j \in 1..Len(account_to_id) :
             i # j => account_to_id[i].v # account_to_id[j].v)
    /\ [](/\ next_id = Len(account_to_id) + 1
          /\ \A i \in 1..Len(account_to_id) :
                /\ account_to_id[i].v = <<"I", "D">> \o Decimal(i)
                /\ get(id_to_account, account_to_id[i].v) = Some(account_to_id[i].k))
    /\ [](\A i \in 1..Len(players) :
             get_my_id(players[i].k) = Some(players[i].v.bizon_id))
    /\ [][ /\ next_id' >= next_id
           /\ \A a \in MapKeys(account_to_id) : get_my_id(a)' = get_my_id(a)
           /\ \A id \in MapKeys(id_to_account) :
                 get(id_to_account, id)' = get(id_to_account, id)
         ]_vars

\* several accounts have ids and one of them has entered again
C7_Witness ==
    /\ total_players >= 3
    /\ entries > total_players
    /\ receipt.method = "join"
    /\ receipt.status = OK

\* C8 (cycle arithmetic): every level is in 0..9; a matrix completion of an
\* owner at a level below 9 raises the level by 1 and leaves cycles as they
\* were, a completion at level 9 sets the level to 0 and raises cycles by 1,
\* and nothing else changes either; so after c completions the level is
\* c mod 10 and cycles is c div 10 (9 completions: level 9, cycles 0;
\* 10 completions: level 0, cycles 1).
C8_CycleArithmetic ==
    /\ [](\A i \in 1..Len(players) :
             /\ players[i].v.level \in 0..9
             /\ players[i].v.level = completions[players[i].k] % 10
             /\ players[i].v.cycles = completions[players[i].k] \div 10)
    /\ [][ \A i \in 1..Len(players) :
             LET a == players[i].k
                 p == players[i].v
                 q == players'[i].v
                 done == completions'[a] - completions[a]
             IN  /\ players'[i].k = a
                 /\ done \in {0, 1}
                 /\ done = 0 => (q.level = p.level /\ q.cycles = p.cycles)
                 /\ (done = 1 /\ p.level < 9) =>
                        (q.level = p.level + 1 /\ q.cycles = p.cycles)
                 /\ (done = 1 /\ p.level = 9) =>
                        (q.level = 0 /\ q.cycles = p.cycles + 1)
         ]_vars

\* the tenth completion of a player has just closed its first cycle
C8_Witness ==
    /\ contains_key(players, ALICE)
    /\ completions[ALICE] = 10
    /\ get(players, ALICE)[1].level = 0
    /\ get(players, ALICE)[1].cycles = 1
    /\ \E j \in 1..Len(receipt.log) : receipt.log[j].step = "full"

\* C9 (matrix completion scenario), as claimed: from the empty ledger, the
\* first participant has fill 1 after its entry without referral, and after
\* nine more new participants have entered once each, its matrix has
\* completed: its level is 1 and its fill 0.
C9_CompletionScenario ==
    /\ (entries = 1 /\ total_players = 1) => matrix_fill[1].v = 1
    /\ (entries = MATRIX_SLOTS /\ total_players = MATRIX_SLOTS) =>
          /\ players[1].v.level = 1
          /\ matrix_fill[1].v = 0

\* C9, amended: from the empty ledger, the first participant has fill 1 after
\* its entry; each of the new participants that enter after it, once each,
\* is placed into its own matrix (the only one with fill 0), so that after
\* the ten entries every fill is 1, no matrix has completed and every level,
\* the first participant's too, is 0.
C9_EntrantsFillOwnMatrix ==
    /\ Len(matrix_fill) = entries
    /\ Len(players) = entries
    /\ \A i \in 1..Len(matrix_fill) :
          /\ matrix_fill[i].k = players[i].k
          /\ matrix_fill[i].v = 1
          /\ players[i].v.level = 0
          /\ players[i].v.cycles = 0
    /\ entries > 0 =>
          receipt.log = <<[step |-> "spill", owner |-> receipt.caller, fill |-> 1]>>

\* ten distinct participants have entered once each
C9_Witness ==
    /\ entries = MATRIX_SLOTS
    /\ total_players = MATRIX_SLOTS
    /\ Cardinality(MapKeys(players)) = MATRIX_SLOTS
    /\ players[1].v.referrer = None
    /\ matrix_fill[1].v = 1
    /\ matrix_fill[MATRIX_SLOTS].v = 1

\* C10 (claim rejection), as claimed: a claim by an account without a
\* participant record, or with a pending balance of 0, fails with
\* "Nothing to claim" in both cases, requests no payout and changes nothing.
C10_ClaimRejection ==
    [][ ( /\ Step("claim_all")
          /\ \/ ~contains_key(players, receipt'.caller)
             \/ Pending(receipt'.caller) = 0 )
        => /\ receipt'.status = NothingToClaim
           /\ receipt'.ret = None
           /\ Untouched
      ]_vars

\* C10, amended: a claim by a participant whose pending balance is 0 fails
\* with "Nothing to claim"; a claim by an account without a participant
\* record fails too, but with "Not a player"; either requests no payout and
\* changes nothing.
C10_ClaimRejectionByCase ==
    [][ Step("claim_all") =>
          /\ ~contains_key(players, receipt'.caller) =>
                /\ receipt'.status = NotAPlayer
                /\ receipt'.ret = None
                /\ Untouched
          /\ (contains_key(players, receipt'.caller) /\ Pending(receipt'.caller) = 0) =>
                /\ receipt'.status = NothingToClaim
                /\ receipt'.ret = None
                /\ Untouched
      ]_vars

\* an account without a record has claimed, next to a participant
C10_Witness ==
    /\ receipt.method = "claim_all"
    /\ receipt.status = NotAPlayer
    /\ ~contains_key(players, receipt.caller)
    /\ total_players > 0

\* C11 (invalid payment is rejected atomically): a join call whose attached
\* deposit differs from the fee of 1 NEAR fails with "Need exactly 1 NEAR to
\* join" and changes nothing: no id is allocated, next_id and total_players
\* are as before, no pool is credited and no matrix fill changes.
C11_InvalidPaymentAtomic ==
    [][ (Step("join") /\ receipt'.args.deposit # one_near) =>
            /\ receipt'.status = InvalidPayment
            /\ Untouched
            /\ get(account_to_id', receipt'.caller) = get_my_id(receipt'.caller)
            /\ PoolTotal' = PoolTotal
            /\ entries' = entries
      ]_vars

\* an account without an id, giving a referral, attached more than the fee
\* to a ledger that already has a participant, and was turned away
C11_Witness ==
    /\ receipt.method = "join"
    /\ receipt.args.deposit > one_near
    /\ receipt.args.ref_raw # None
    /\ receipt.status = InvalidPayment
    /\ get_my_id(receipt.caller) = None
    /\ total_players > 0

\* C12 (no self-referral): no player's referrer is the player's own account,
\* whatever the form of the referral input; a first entry whose input is the
\* caller's own account name, or the id that this very entry assigns to the
\* caller, stores no referrer.
C12_NoSelfReferral ==
    /\ [](\A i \in 1..Len(players) : players[i].v.referrer # Some(players[i].k))
    /\ [][ ( /\ Returned("join")
             /\ ~contains_key(players, receipt'.caller)
             /\ receipt'.args.ref_raw \in {Some(receipt'.caller), Some(format_id(next_id))} )
           => /\ get(account_to_id', receipt'.caller) = Some(format_id(next_id))
              /\ get(players', receipt'.caller)[1].referrer = None
         ]_vars

\* the second account entered for the first time giving the id it was
\* assigned in that entry, and has no referrer; the first one has one
C12_Witness ==
    /\ receipt.method = "join"
    /\ receipt.status = OK
    /\ entries = 2
    /\ total_players = 2
    /\ receipt.caller = players[2].k
    /\ receipt.args.ref_raw = Some(players[2].v.bizon_id)
    /\ players[2].v.referrer = None
    /\ players[1].v.referrer # None

\* C13 (record consistency): the accounts with a player record are the
\* accounts with an id; id_to_account and account_to_id are inverses of each
\* other; total_players is the number of player records (one per account);
\* an entry by an account that is already a player changes none of
\* total_players, next_id, id_to_account and account_to_id.
C13_RecordConsistency ==
    /\ [](/\ MapKeys(players) = MapKeys(account_to_id)
          /\ \A a \in MapKeys(account_to_id) :
                get(id_to_account, get(account_to_id, a)[1]) = Some(a)
          /\ \A id \in MapKeys(id_to_account) :
                get(account_to_id, get(id_to_account, id)[1]) = Some(id)
          /\ total_players = Len(players)
          /\ total_players = Cardinality(MapKeys(players))
          /\ Len(id_to_account) = Len(account_to_id))
    /\ [][ (Returned("join") /\ contains_key(players, receipt'.caller)) =>
             /\ UNCHANGED <<total_players, next_id, id_to_account, account_to_id>>
             /\ Len(players') = Len(players)
         ]_vars

\* four accounts are players and one of them has just entered again
C13_Witness ==
    /\ receipt.method = "join"
    /\ receipt.status = OK
    /\ contains_key(players, receipt.caller)
    /\ total_players = MaxPoolPlayers
    /\ entries > total_players
    /\ next_id = total_players + 1

\* C14 (disable_owner is one-way): called by the current owner, disable_owner
\* succeeds and replaces owner_id by the disabled value; from then on
\* owner_id never changes and no disable_owner call succeeds; called by any
\* other account it fails with "Not owner" and leaves owner_id as it was.
C14_DisableOwnerOneWay ==
    [][ /\ (Step("disable_owner") /\ receipt'.caller = owner_id) =>
              /\ receipt'.status = OK
              /\ owner_id' = DISABLED
        /\ (Step("disable_owner") /\ receipt'.caller # owner_id) =>
              /\ receipt'.status = NotAuthorized
              /\ owner_id' = owner_id
        /\ owner_id = DISABLED =>
              /\ owner_id' = DISABLED
              /\ Step("disable_owner") => receipt'.status # OK
      ]_vars

\* C15 (pending balance frame): a player's pending_balance grows only in a
\* distribute_daily call and shrinks only in a claim_all call of that player,
\* which sets it to 0; join (first or repeat, with the matrix completions it
\* causes), set_reinvest_rate and disable_owner leave every pending_balance
\* as it was (a new record starts at 0); pending_balance is never negative.
C15_PendingBalanceFrame ==
    /\ [](\A i \in 1..Len(players) : players[i].v.pending_balance >= 0)
    /\ [][ /\ Len(players') >= Len(players)
           /\ \A i \in 1..Len(players) :
                 LET a == players[i].k
                     old == players[i].v.pending_balance
                     new == players'[i].v.pending_balance
                 IN  /\ players'[i].k = a
                     /\ new > old => Returned("distribute_daily")
                     /\ new < old => /\ Returned("claim_all")
                                     /\ receipt'.caller = a
                                     /\ new = 0
                     /\ ( \/ Step("join")
                          \/ Step("set_reinvest_rate")
                          \/ Step("disable_owner") ) => new = old
           /\ \A i \in (Len(players) + 1)..Len(players') :
                 /\ Returned("join")
                 /\ players'[i].v.pending_balance = 0
         ]_vars

\* an entry has completed the matrix of a player that holds a pending
\* balance, which is still all that was credited to it
C15_Witness ==
    /\ receipt.method = "join"
    /\ \E j \in 1..Len(receipt.log) :
          /\ receipt.log[j].step = "full"
          /\ receipt.log[j].owner = ALICE
    /\ Pending(ALICE) > 0
    /\ Pending(ALICE) = credited[ALICE]
    /\ paid[ALICE] = 0

\* C16 (tolerant set_reinvest_rate), as claimed: a set_reinvest_rate call
\* with a rate in 0..100 by a caller without a player record succeeds and
\* changes nothing; by a caller with a record it succeeds and sets only that
\* player's reinvest_rate to the rate.
C16_TolerantSetReinvestRate ==
    [][ (Step("set_reinvest_rate") /\ receipt'.args.rate \in 0..100) =>
            LET c == receipt'.caller
            IN  /\ receipt'.status = OK
                /\ paid' = paid
                /\ OnlyPlayersChange
                /\ IF contains_key(players, c)
                   THEN players' = insert(players, c,
                            [get(players, c)[1] EXCEPT !.reinvest_rate = receipt'.args.rate])
                   ELSE players' = players
      ]_vars

\* C16, amended: a set_reinvest_rate call with a rate in 0..100 by a caller
\* without a player record fails with "Not a player" and changes nothing; by
\* a caller with a record it succeeds and sets only that player's
\* reinvest_rate to the rate.
C16_StrictSetReinvestRate ==
    [][ (Step("set_reinvest_rate") /\ receipt'.args.rate \in 0..100) =>
            LET c == receipt'.caller
            IN  /\ paid' = paid
                /\ OnlyPlayersChange
                /\ IF contains_key(players, c)
                   THEN /\ receipt'.status = OK
                        /\ players' = insert(players, c,
                               [get(players, c)[1] EXCEPT !.reinvest_rate = receipt'.args.rate])
                   ELSE /\ receipt'.status = NotAPlayer
                        /\ players' = players
      ]_vars

\* an account without a record has called with a rate of 100, next to a
\* player
C16_Witness ==
    /\ receipt.method = "set_reinvest_rate"
    /\ receipt.args.rate = 100
    /\ receipt.status = NotAPlayer
    /\ ~contains_key(players, receipt.caller)
    /\ total_players > 0

\* the matrix-fill records at the moment of the first placement of an entry
\* by account c: those before the call and, for a new player, its own at 0
FillsAtPlacement(c) ==
    IF contains_key(players, c) THEN matrix_fill
    ELSE Append(matrix_fill, [k |-> c, v |-> 0])

\* C17 (least-filled placement): the first placement of every entry that
\* succeeds, new or repeat, is made on the owner whose fill is the least of
\* all matrix-fill records at that moment (the record of a new entrant, at
\* 0, among them), the earliest-inserted of the owners with that fill; when
\* the placement completes no matrix, that owner's fill is larger by 1 after
\* the entry and every other fill is as before.
C17_LeastFilledPlacement ==
    [][ Returned("join") =>
            LET m == FillsAtPlacement(receipt'.caller)
                j == CHOOSE j \in 1..Len(m) :
                        /\ \A k \in 1..Len(m) : m[j].v <= m[k].v
                        /\ \A k \in 1..(j - 1) : m[j].v < m[k].v
                first == receipt'.log[1]
            IN  /\ Len(receipt'.log) >= 1
                /\ first = [step |-> "spill", owner |-> m[j].k, fill |-> m[j].v + 1]
                /\ (\A i \in 1..Len(receipt'.log) : receipt'.log[i].step # "full") =>
                       /\ Len(receipt'.log) = 1
                       /\ matrix_fill' = [m EXCEPT ![j].v = @ + 1]
      ]_vars

\* the second player entered again while both fills were equal and was
\* placed into the matrix of the first
C17_Witness ==
    /\ receipt.method = "join"
    /\ receipt.status = OK
    /\ entries > total_players
    /\ receipt.caller = BOB
    /\ receipt.log = <<[step |-> "spill", owner |-> ALICE, fill |-> 3]>>
    /\ matrix_fill = << [k |-> ALICE, v |-> 3], [k |-> BOB, v |-> 2] >>

RECURSIVE Replay(_, _, _)
\* the matrix-fill records m after the first n steps of a call's log: a
\* placement writes the owner's fill, a completion writes 0
Replay(m, log, n) ==
    IF n = 0 THEN m
    ELSE LET before == Replay(m, log, n - 1)
             s == log[n]
         IN  insert(before, s.owner, IF s.step = "spill" THEN s.fill ELSE 0)

\* the least-filled owner of the records m, the earliest-inserted of several
LeastFilled(m) ==
    m[CHOOSE j \in 1..Len(m) :
          /\ \A k \in 1..Len(m) : m[j].v <= m[k].v
          /\ \A k \in 1..(j - 1) : m[j].v < m[k].v].k

\* C18 (cascade termination): the placement of every entry, with the
\* re-placements that completions cause, ends after finitely many steps: no
\* owner completes twice in one entry and the steps are at most a placement
\* and a completion per owner; when the owner of a completed matrix is still
\* the least-filled owner after its fill was reset to 0, no further placement
\* is made and the entry ends there.
C18_CascadeTermination ==
    [][ (Step("join") /\ receipt'.args.deposit = one_near) =>
            LET log == receipt'.log
                m == FillsAtPlacement(receipt'.caller)
            IN  /\ receipt'.status = OK
                /\ Len(log) <= 2 * Len(m)
                /\ matrix_fill' = Replay(m, log, Len(log))
                /\ \A i, j \in 1..Len(log) :
                      (i # j /\ log[i].step = "full" /\ log[j].step = "full")
                          => log[i].owner # log[j].owner
                /\ \A i \in 1..Len(log) :
                      (log[i].step = "full"
                          /\ LeastFilled(Replay(m, log, i)) = log[i].owner)
                          => i = Len(log)
      ]_vars

\* the first player's matrix was completed while the other player's fill was
\* 9: the first player, at 0, was the least-filled and the entry ended
C18_Witness ==
    /\ receipt.method = "join"
    /\ Len(receipt.log) = 2
    /\ receipt.log[2].step = "full"
    /\ receipt.log[2].owner = ALICE
    /\ matrix_fill = << [k |-> ALICE, v |-> 0], [k |-> BOB, v |-> 9] >>

\* what an accepted distribute_daily drops: the remainder of the daily pool
\* divided by the number of players, when the share is more than 0
Dust ==
    IF total_players > 0 /\ daily_pool \div total_players > 0
    THEN daily_pool % total_players
    ELSE 0

RECURSIVE PaidFrom(_, _, _)
\* the sum of what claims have paid to the players from the i-th on
PaidFrom(m, f, i) ==
    IF i > Len(m) THEN 0 ELSE f[m[i].k] + PaidFrom(m, f, i + 1)

\* the pools, the pending balances and the payouts to the players together
Ledger ==
    PoolTotal + PendingFrom(players, 1) + PaidFrom(players, paid, 1)

\* C19 (ledger solvency): the four pools, all pending balances and all that
\* claims have paid out (only players are ever paid) are together at most
\* the fee times the number of accepted entries; the total grows by the fee
\* in an accepted entry, falls by the truncation dust in an accepted
\* distribution with a share above 0, and is the same after every other
\* step, so that the shortfall is exactly the dust dropped so far.
C19_LedgerSolvency ==
    /\ [](/\ Ledger <= entries * one_near
          /\ daily_pool >= 0 /\ monthly_pool >= 0
          /\ yearly_pool >= 0 /\ global_pool >= 0
          /\ \A a \in DOMAIN paid : paid[a] # 0 => contains_key(players, a))
    /\ [][ /\ entries' = IF Returned("join") THEN entries + 1 ELSE entries
           /\ Ledger' = Ledger +
                 ( IF Returned("join") THEN one_near
                   ELSE IF Returned("distribute_daily") THEN 0 - Dust
                   ELSE 0 )
         ]_vars

\* a distribution has dropped dust and a player has claimed its share since
C19_Witness ==
    /\ receipt.method = "claim_all"
    /\ receipt.status = OK
    /\ paid[receipt.caller] > 0
    /\ Ledger < entries * one_near
    /\ PendingFrom(players, 1) > 0

\* the positions of the steps of one kind in a call's log
StepsOf(log, kind) ==
    {i \in 1..Len(log) : log[i].step = kind}

\* C20 (cascade depth): in one entry at most one matrix is completed and at
\* most two fills are raised; a placement made after a completion lands on a
\* matrix whose fill was 0 (it writes 1) and so completes nothing; the
\* accounts with a matrix-fill record are always the players, so the owner
\* account gets no fill record by placement.
C20_CascadeDepth ==
    /\ [](/\ MapKeys(matrix_fill) = MapKeys(players)
          /\ Len(matrix_fill) = Len(players)
          /\ contains_key(matrix_fill, owner_id) => contains_key(players, owner_id))
    /\ [][ Returned("join") =>
             LET log == receipt'.log
             IN  /\ Cardinality(StepsOf(log, "full")) <= 1
                 /\ Cardinality(StepsOf(log, "spill")) \in 1..2
                 /\ log[1].step = "spill"
                 /\ \A i \in StepsOf(log, "full") :
                       /\ log[i - 1] = [step |-> "spill", owner |-> log[i].owner,
                                        fill |-> MATRIX_SLOTS]
                       /\ get(matrix_fill, log[i].owner) = Some(MATRIX_SLOTS - 1)
                 /\ \A i \in StepsOf(log, "spill") :
                       i > 1 => (log[i - 1].step = "full" /\ log[i].fill = 1)
         ]_vars

\* an entry has completed the second player's matrix for the second time:
\* one placement, one completion
C20_Witness ==
    /\ receipt.method = "join"
    /\ receipt.log[1] = [step |-> "spill", owner |-> BOB, fill |-> MATRIX_SLOTS]
    /\ Cardinality(StepsOf(receipt.log, "full")) = 1
    /\ completions[BOB] = 2
    /\ get(matrix_fill, BOB) = Some(0)
    /\ MapKeys(matrix_fill) = {ALICE, BOB}

=============================================================================
